---- MODULE Spec2Model ----
(***************************************************************************)
(* State-machine model of telegram_attendance_bot.py: the five tables of   *)
(* the SQLite store, the live APScheduler job store, the APP_INSTANCE      *)
(* global, the prompts that are in flight or delivered, and one action per *)
(* command handler, callback activation, trigger fire and process restart. *)
(***************************************************************************)
EXTENDS Integers, Sequences, FiniteSets, TLC

\* ------------------------------------------------------------------ bounds
NChats == 2
NUsers == 2
\* rows of groups, members and attendance_sessions together
MaxRows == 4
MaxRecords == 2
MaxSessions == 2
MaxJobs == 2
MaxClock == 1
MaxPending == 2
MaxRestarts == 1

\* ------------------------------------------------------------ input domains
\* chat 0 is a private chat; 1..NChats are group chats
PrivateChat == 0
GroupChats == 1..NChats
Chats == {PrivateChat} \cup GroupChats
Users == 1..NUsers

NoArgs == <<>>
NameList == <<"Alice", "Bob">>
Names == {NameList[i] : i \in 1..Len(NameList)}
\* ORDER BY full_name: position of the name in the collation order
NameRank(n) == CHOOSE i \in 1..Len(NameList) : NameList[i] = n
\* user.full_name, the profile name Telegram reports for a user
UserFullName(u) == NameList[((u - 1) % Len(NameList)) + 1]

\* int(): the literals that parse, with their values; anything else raises
\* ValueError
IntLits == <<
    <<"-1", -1>>, <<"0", 0>>, <<"1", 1>>, <<"2", 2>>, <<"3", 3>>, <<"4", 4>>,
    <<"5", 5>>, <<"6", 6>>, <<"7", 7>>, <<"8", 8>>, <<"9", 9>>,
    <<"23", 23>>, <<"24", 24>>, <<"59", 59>>, <<"60", 60>> >>
IntLitTexts == {IntLits[i][1] : i \in 1..Len(IntLits)}
IntLitValues == {IntLits[i][2] : i \in 1..Len(IntLits)}
IntValueOf ==
    [s \in IntLitTexts |->
        IntLits[CHOOSE i \in 1..Len(IntLits) : IntLits[i][1] = s][2]]
IntTextOf ==
    [n \in IntLitValues |->
        IntLits[CHOOSE i \in 1..Len(IntLits) : IntLits[i][2] = n][1]]
IsIntLit(s) == s \in IntLitTexts
ParseInt(s) == IntValueOf[s]
\* str(): the decimal literal of a number
IntStr(n) == IntTextOf[n]

NULL == 0
Roles == {"member", "admin"}
Statuses == {"present", "late", "absent"}

VARIABLES
    groups,               \* table groups: Seq of chat_id, row id = index
    members,              \* table members: Seq of rows, row id = index
    attendance_sessions,  \* table attendance_sessions: Seq of rows
    attendance_records,   \* table attendance_records: set of rows
    scheduled_jobs,       \* table scheduled_jobs: Seq of rows
    scheduler,            \* live APScheduler job store: set of jobs
    APP_INSTANCE,         \* the global set by post_init
    pending,              \* prompts handed to the transport, not yet delivered
    prompts,              \* delivered prompts, message_id = index
    clock,                \* datetime.utcnow()
    restarts,             \* process restarts so far
    out                   \* what the last handler answered

vars == <<groups, members, attendance_sessions, attendance_records,
          scheduled_jobs, scheduler, APP_INSTANCE, pending, prompts, clock,
          restarts, out>>

store == <<groups, members, attendance_sessions, attendance_records,
           scheduled_jobs>>

\* the tables only grow; the model stops growing them at MaxRows rows
Fits(gs, ms, ss, rs, js) ==
    /\ Len(gs) + Len(ms) + Len(ss) <= MaxRows
    /\ Len(js) <= MaxJobs
    /\ Cardinality(rs) <= MaxRecords

\* ------------------------------------------------------------- Store helpers
SeqIds(s) == 1..Len(s)

\* SELECT id FROM groups WHERE chat_id = ?  (NULL when there is no row)
get_group_by_chat(gs, chat_id) ==
    IF \E i \in SeqIds(gs) : gs[i] = chat_id
    THEN CHOOSE i \in SeqIds(gs) : gs[i] = chat_id
    ELSE NULL

\* the groups table after ensure_group(chat_id)
ensure_group(gs, chat_id) ==
    IF get_group_by_chat(gs, chat_id) # NULL THEN gs ELSE Append(gs, chat_id)

MemberRow(group_id, telegram_id, full_name, role) ==
    [group_id |-> group_id, telegram_id |-> telegram_id,
     full_name |-> full_name, role |-> role, active |-> TRUE]

\* members with UNIQUE(group_id, telegram_id): the row index of a pair, or NULL
MemberIndex(ms, group_id, telegram_id) ==
    IF \E i \in SeqIds(ms) : ms[i].group_id = group_id /\ ms[i].telegram_id = telegram_id
    THEN CHOOSE i \in SeqIds(ms) : ms[i].group_id = group_id /\ ms[i].telegram_id = telegram_id
    ELSE NULL

\* a mutation of add_member_db: the INSERT with no UNIQUE constraint to stop it
add_member_db_noconflict(ms, group_id, telegram_id, full_name, role) ==
    Append(ms, MemberRow(group_id, telegram_id, full_name, role))

\* the members table after add_member_db: INSERT, or on IntegrityError UPDATE
\* full_name, role and active of the existing row
add_member_db(ms, group_id, telegram_id, full_name, role) ==
    LET i == MemberIndex(ms, group_id, telegram_id) IN
    IF i = NULL
    THEN Append(ms, MemberRow(group_id, telegram_id, full_name, role))
    ELSE [ms EXCEPT ![i] = [@ EXCEPT !.full_name = full_name, !.role = role,
                                     !.active = TRUE]]

\* (id, full_name, role) of the active row of (group_id, telegram_id): here the
\* row id, NULL when there is none
get_member_by_telegram(ms, group_id, telegram_id) ==
    IF \E i \in SeqIds(ms) : /\ ms[i].group_id = group_id
                             /\ ms[i].telegram_id = telegram_id
                             /\ ms[i].active
    THEN CHOOSE i \in SeqIds(ms) : /\ ms[i].group_id = group_id
                                   /\ ms[i].telegram_id = telegram_id
                                   /\ ms[i].active
    ELSE NULL

\* a mutation of IsAdminInvoker: any active member passes
IsAdminInvoker_anymember(ms, group_id, telegram_id) ==
    get_member_by_telegram(ms, group_id, telegram_id) # NULL

\* a mutation of IsAdminInvoker: an admin row of any group passes
IsAdminInvoker_anygroup(ms, group_id, telegram_id) ==
    \E i \in SeqIds(ms) :
        ms[i].telegram_id = telegram_id /\ ms[i].active /\ ms[i].role = "admin"

\* not (not invoker or invoker[2] != "admin")
IsAdminInvoker(ms, group_id, telegram_id) ==
    LET invoker == get_member_by_telegram(ms, group_id, telegram_id) IN
    invoker # NULL /\ ms[invoker].role = "admin"

\* ids of the active members of a group (get_all_members, as a set)
ActiveMemberIds(ms, group_id) ==
    {i \in SeqIds(ms) : ms[i].group_id = group_id /\ ms[i].active}

\* what a handler answered: the handler, the outcome, and the session it
\* created or resolved (NULL when none)
Out(op, res, session_id) == [op |-> op, res |-> res, session_id |-> session_id]

SessionRow(group_id, session_title, created_by) ==
    [group_id |-> group_id, session_title |-> session_title,
     message_id |-> NULL, created_by |-> created_by]

\* a mutation of create_session_db: the id given back is that of the first
\* row, not cur.lastrowid (the new row goes in front)
create_session_db_firstrow(ss, group_id, session_title, created_by) ==
    <<SessionRow(group_id, session_title, created_by)>> \o ss

\* the attendance_sessions table after create_session_db; cur.lastrowid is
\* Len of the result
create_session_db(ss, group_id, session_title, created_by) ==
    Append(ss, SessionRow(group_id, session_title, created_by))

\* a mutation of set_session_message_id: the UPDATE without "WHERE id = ?"
set_session_message_id_all(ss, session_id, message_id) ==
    [i \in SeqIds(ss) |-> [ss[i] EXCEPT !.message_id = message_id]]

\* the attendance_sessions table after set_session_message_id
set_session_message_id(ss, session_id, message_id) ==
    [i \in SeqIds(ss) |->
        IF i = session_id THEN [ss[i] EXCEPT !.message_id = message_id] ELSE ss[i]]

RecordRow(session_id, member_id, status, timestamp) ==
    [session_id |-> session_id, member_id |-> member_id, status |-> status,
     timestamp |-> timestamp]

\* a mutation of record_attendance: the IntegrityError is swallowed and the
\* first row kept
record_attendance_keepfirst(rs, session_id, member_id, status, timestamp) ==
    IF \E r \in rs : r.session_id = session_id /\ r.member_id = member_id
    THEN rs
    ELSE rs \cup {RecordRow(session_id, member_id, status, timestamp)}

\* the attendance_records table after record_attendance: INSERT, or on
\* IntegrityError (UNIQUE(session_id, member_id)) UPDATE status and timestamp
record_attendance(rs, session_id, member_id, status, timestamp) ==
    IF \E r \in rs : r.session_id = session_id /\ r.member_id = member_id
    THEN {IF r.session_id = session_id /\ r.member_id = member_id
          THEN [r EXCEPT !.status = status, !.timestamp = timestamp]
          ELSE r : r \in rs}
    ELSE rs \cup {RecordRow(session_id, member_id, status, timestamp)}

\* a mutation of get_session_records: the query without "WHERE r.session_id = ?"
get_session_records_all(rs, session_id) == rs

\* rows of a session (get_session_records, before the join and the ordering)
get_session_records(rs, session_id) == {r \in rs : r.session_id = session_id}

\* SQLite's INTEGER affinity on a text parameter compared with an id column:
\* an integer literal is compared as that integer, other text matches no row
SqlId(s) == IF IsIntLit(s) THEN ParseInt(s) ELSE NULL

\* ------------------------------------------------------------ command inputs
\* chat.type in ("group", "supergroup")
IsGroupChat(chat) == chat \in GroupChats

\* " ".join(args) for the argument lists enumerated here (one word)
JoinArgs(args) == args[1]

RegisterArgs == {NoArgs} \cup {<<n>> : n \in Names}
AddMemberArgs ==
    {NoArgs, <<"@bob", "Alice">>, <<"x", "Alice">>, <<"0", "Alice">>}
        \cup {<<IntStr(u), n>> : u \in Users, n \in Names}
PromoteArgs == {NoArgs, <<"x">>} \cup {<<IntStr(u)>> : u \in Users}

\* updates are handled one at a time, after post_init, and not while the
\* handler of an earlier update is suspended in its send
Polling == APP_INSTANCE /\ ~\E p \in pending : p.by = "manual"

\* --------------------------------------------------------- roster commands
\* the outcome of start and the groups and members tables after it
start_result(chat, user, is_chat_admin) ==
    LET gs == ensure_group(groups, chat)
        group_id == get_group_by_chat(gs, chat)
    IN IF IsGroupChat(chat)
       THEN [res |-> "hello", groups |-> gs,
             members |-> IF is_chat_admin
                         THEN add_member_db(members, group_id, user,
                                            UserFullName(user), "admin")
                         ELSE members]
       ELSE [res |-> "not_group", groups |-> groups, members |-> members]

start(chat, user, is_chat_admin) ==
    /\ Polling
    /\ LET r == start_result(chat, user, is_chat_admin)
       IN /\ Fits(r.groups, r.members, attendance_sessions,
                  attendance_records, scheduled_jobs)
          /\ groups' = r.groups
          /\ members' = r.members
          /\ out' = Out("start", r.res, NULL)
    /\ UNCHANGED <<attendance_sessions, attendance_records, scheduled_jobs,
                   scheduler, APP_INSTANCE, pending, prompts, clock, restarts>>

\* the outcome of register and the groups and members tables after it
register_result(chat, user, args) ==
    LET gs == ensure_group(groups, chat)
        group_id == get_group_by_chat(gs, chat)
        full_name == IF args # NoArgs THEN JoinArgs(args)
                     ELSE UserFullName(user)
    IN IF ~IsGroupChat(chat)
       THEN [res |-> "not_group", groups |-> groups, members |-> members]
       ELSE [res |-> "registered", groups |-> gs,
             members |-> add_member_db(members, group_id, user, full_name,
                                       "member")]

register(chat, user, args) ==
    /\ Polling
    /\ LET r == register_result(chat, user, args)
       IN /\ Fits(r.groups, r.members, attendance_sessions,
                  attendance_records, scheduled_jobs)
          /\ groups' = r.groups
          /\ members' = r.members
          /\ out' = Out("register", r.res, NULL)
    /\ UNCHANGED <<attendance_sessions, attendance_records, scheduled_jobs,
                   scheduler, APP_INSTANCE, pending, prompts, clock, restarts>>

\* the outcome of add_member and the members table after it
add_member_result(chat, user, args) ==
    LET group_id == get_group_by_chat(groups, chat)
        first == args[1]
        full_name == IF Len(args) > 1 THEN args[2] ELSE first
        tg_id == IF IsIntLit(first) THEN ParseInt(first) ELSE NULL
        keep(res) == [res |-> res, members |-> members]
    IN IF ~IsGroupChat(chat) THEN keep("not_group")
       ELSE IF group_id = NULL THEN keep("group_not_registered")
       ELSE IF ~IsAdminInvoker(members, group_id, user) THEN keep("not_admin")
       ELSE IF args = NoArgs THEN keep("usage")
       ELSE IF first = "@bob" THEN keep("need_numeric_id")
       ELSE IF tg_id = NULL THEN keep("bad_id")
       ELSE [res |-> "added",
             members |-> add_member_db(members, group_id, tg_id, full_name,
                                       "member")]

add_member(chat, user, args) ==
    /\ Polling
    /\ LET r == add_member_result(chat, user, args)
       IN /\ members' = r.members
          /\ out' = Out("add_member", r.res, NULL)
          /\ Fits(groups, r.members, attendance_sessions, attendance_records,
                  scheduled_jobs)
    /\ UNCHANGED <<groups, attendance_sessions, attendance_records,
                   scheduled_jobs, scheduler, APP_INSTANCE, pending, prompts,
                   clock, restarts>>

\* a mutation of promote_update: the UPDATE without "group_id = ? AND"
promote_update_anygroup(ms, group_id, tg_id) ==
    [i \in SeqIds(ms) |->
        IF ms[i].telegram_id = tg_id
        THEN [ms[i] EXCEPT !.role = "admin"] ELSE ms[i]]

\* UPDATE members SET role = 'admin' WHERE group_id = ? AND telegram_id = ?
promote_update(ms, group_id, tg_id) ==
    [i \in SeqIds(ms) |->
        IF ms[i].group_id = group_id /\ ms[i].telegram_id = tg_id
        THEN [ms[i] EXCEPT !.role = "admin"] ELSE ms[i]]

promote_member_result(chat, user, args) ==
    LET group_id == get_group_by_chat(groups, chat)
        keep(res) == [res |-> res, members |-> members]
    IN IF group_id = NULL THEN keep("group_not_registered")
       ELSE IF ~IsAdminInvoker(members, group_id, user) THEN keep("not_admin")
       ELSE IF args = NoArgs THEN keep("usage")
       ELSE IF ~IsIntLit(args[1]) THEN keep("invalid_id")
       ELSE [res |-> "promoted",
             members |-> promote_update(members, group_id, ParseInt(args[1]))]

promote_member(chat, user, args) ==
    /\ Polling
    /\ LET r == promote_member_result(chat, user, args)
       IN /\ members' = r.members
          /\ out' = Out("promote", r.res, NULL)
    /\ UNCHANGED <<groups, attendance_sessions, attendance_records,
                   scheduled_jobs, scheduler, APP_INSTANCE, pending, prompts,
                   clock, restarts>>

\* ------------------------------------------------------- sessions, prompts
\* callback_data f"choose:{session_id}:{m_id}", as the parts split(":") gives
ChooseToken(session_id, member_id) ==
    <<"choose", IntStr(session_id), IntStr(member_id)>>

\* callback_data of a scheduled prompt's buttons, f"mark:{session_id}:{m_id}"
ScheduledToken(session_id, member_id) ==
    <<"mark", IntStr(session_id), IntStr(member_id)>>

\* callback_data f"mark:{session_id}:{member_id}:<status>" of the status buttons
MarkToken(session_id, member_id, status) ==
    <<"mark", session_id, member_id, status>>

\* the three status buttons a choose answers with
StatusControls(session_id, member_id) ==
    {MarkToken(session_id, member_id, st) : st \in {"present", "late", "absent"}}

Prompt(by, chat, session_id, tokens) ==
    [by |-> by, chat |-> chat, session_id |-> session_id, tokens |-> tokens]

\* the keyboard of /attendance: one button per active member
ManualKeyboard(ms, group_id, session_id) ==
    {ChooseToken(session_id, m) : m \in ActiveMemberIds(ms, group_id)}

\* the keyboard of a scheduled post: one button per active member
ScheduledKeyboard(ms, group_id, session_id) ==
    {ScheduledToken(session_id, m) : m \in ActiveMemberIds(ms, group_id)}

\* a mutation of attendance_result: the roster is checked before the session
\* is created, so an empty roster leaves no session behind
attendance_result_checkfirst(chat, user) ==
    LET group_id == get_group_by_chat(groups, chat)
        ss == create_session_db(attendance_sessions, group_id, "Attendance",
                                user)
        keep(res) == [res |-> res, session_id |-> NULL,
                      sessions |-> attendance_sessions, pending |-> pending]
    IN IF ~IsGroupChat(chat) THEN keep("not_group")
       ELSE IF group_id = NULL THEN keep("group_not_registered")
       ELSE IF ActiveMemberIds(members, group_id) = {} THEN keep("no_members")
       ELSE [res |-> "sending", session_id |-> Len(ss), sessions |-> ss,
             pending |-> pending \cup
                 {Prompt("manual", chat, Len(ss),
                         ManualKeyboard(members, group_id, Len(ss)))}]

\* the outcome of attendance_command up to its first await, the session it
\* created, and the attendance_sessions table and the sends in flight after
\* it
attendance_result(chat, user) ==
    LET group_id == get_group_by_chat(groups, chat)
        ss == create_session_db(attendance_sessions, group_id, "Attendance",
                                user)
        session_id == Len(ss)
        keep(res) == [res |-> res, session_id |-> NULL,
                      sessions |-> attendance_sessions, pending |-> pending]
    IN IF ~IsGroupChat(chat) THEN keep("not_group")
       ELSE IF group_id = NULL THEN keep("group_not_registered")
       ELSE IF ActiveMemberIds(members, group_id) = {}
       THEN [res |-> "no_members", session_id |-> session_id,
             sessions |-> ss, pending |-> pending]
       ELSE [res |-> "sending", session_id |-> session_id, sessions |-> ss,
             pending |-> pending \cup
                 {Prompt("manual", chat, session_id,
                         ManualKeyboard(members, group_id, session_id))}]

attendance_command(chat, user) ==
    /\ Polling
    /\ LET r == attendance_result(chat, user)
       IN /\ Len(r.sessions) <= MaxSessions
          /\ Cardinality(r.pending) <= MaxPending
          /\ Fits(groups, members, r.sessions, attendance_records,
                  scheduled_jobs)
          /\ attendance_sessions' = r.sessions
          /\ pending' = r.pending
          /\ out' = Out("attendance", r.res, r.session_id)
    /\ UNCHANGED <<groups, members, attendance_records, scheduled_jobs,
                   scheduler, APP_INSTANCE, prompts, clock, restarts>>

\* the outcome of post_scheduled_attendance up to its first await, the
\* session it created, and the attendance_sessions table and the sends in
\* flight after it
post_scheduled_attendance(chat) ==
    LET group_id == get_group_by_chat(groups, chat)
        ss == create_session_db(attendance_sessions, group_id,
                                "Scheduled attendance", NULL)
        session_id == Len(ss)
        keep(res) == [res |-> res, session_id |-> NULL,
                      sessions |-> attendance_sessions, pending |-> pending]
    IN IF group_id = NULL THEN keep("group_not_found")
       ELSE IF ~APP_INSTANCE THEN keep("no_application")
       ELSE IF ActiveMemberIds(members, group_id) = {}
       THEN [res |-> "no_members", session_id |-> session_id,
             sessions |-> ss, pending |-> pending]
       ELSE [res |-> "sending", session_id |-> session_id, sessions |-> ss,
             pending |-> pending \cup
                 {Prompt("scheduled", chat, session_id,
                         ScheduledKeyboard(members, group_id, session_id))}]

\* a live trigger matches a tick: job_func hands post_scheduled_attendance
\* to the application
Fire(job) ==
    /\ job \in scheduler
    /\ LET r == post_scheduled_attendance(job.chat)
       IN /\ Len(r.sessions) <= MaxSessions
          /\ Cardinality(r.pending) <= MaxPending
          /\ Fits(groups, members, r.sessions, attendance_records,
                  scheduled_jobs)
          /\ attendance_sessions' = r.sessions
          /\ pending' = r.pending
          /\ out' = Out("scheduled_post", r.res, r.session_id)
    /\ UNCHANGED <<groups, members, attendance_records, scheduled_jobs,
                   scheduler, APP_INSTANCE, prompts, clock, restarts>>

\* a live trigger matches a tick and the hand-off fails: job_func runs in the
\* scheduler's worker thread, which has no running event loop for
\* application.create_task to schedule the coroutine on, so the call raises
\* there and post_scheduled_attendance never starts
FireDropped(job) ==
    /\ job \in scheduler
    /\ out' = Out("scheduled_post", "not_run", NULL)
    /\ UNCHANGED <<groups, members, attendance_sessions, attendance_records,
                   scheduled_jobs, scheduler, APP_INSTANCE, pending, prompts,
                   clock, restarts>>

\* the awaited send returns: msg.message_id is known and
\* set_session_message_id runs
Deliver(p) ==
    /\ p \in pending
    /\ pending' = pending \ {p}
    /\ prompts' = Append(prompts, p)
    /\ attendance_sessions' =
         set_session_message_id(attendance_sessions, p.session_id,
                                Len(prompts) + 1)
    /\ out' = Out(IF p.by = "manual" THEN "attendance" ELSE "scheduled_post",
                  "prompt_sent", p.session_id)
    /\ UNCHANGED <<groups, members, attendance_records, scheduled_jobs,
                   scheduler, APP_INSTANCE, clock, restarts>>

\* the awaited send raises: the rest of the coroutine never runs
SendFails(p) ==
    /\ p \in pending
    /\ pending' = pending \ {p}
    /\ out' = Out(IF p.by = "manual" THEN "attendance" ELSE "scheduled_post",
                  "crash", p.session_id)
    /\ UNCHANGED <<groups, members, attendance_sessions, attendance_records,
                   scheduled_jobs, scheduler, APP_INSTANCE, prompts, clock,
                   restarts>>

\* ------------------------------------------------------- marking protocol
MaxMemberId == NChats * NUsers
TokenSessionIds == {IntStr(i) : i \in 0..MaxSessions}
TokenMemberIds == {IntStr(i) : i \in 0..MaxMemberId}
TokenStatuses == Statuses \cup {"bogus"}
\* query.data.split(":") of the activations enumerated: three or four parts
TokensOver(sids, mids) ==
    {<<k, s, m>> : k \in {"choose", "mark"}, s \in sids, m \in mids}
    \cup {<<"mark", s, m, st>> : s \in sids, m \in mids, st \in TokenStatuses}
    \cup {<<"choose", s, m, "present">> : s \in sids, m \in mids}
Tokens == TokensOver(TokenSessionIds, TokenMemberIds)
\* the activations that name rows up to the last one of each table, and "0"
\* for a row that does not exist
LiveTokens ==
    TokensOver({IntStr(i) : i \in 0..Len(attendance_sessions)},
               {IntStr(i) : i \in 0..Len(members)})

\* SELECT telegram_id, full_name FROM members WHERE id = ?: the row id or NULL
MemberById(ms, member_id) ==
    IF SqlId(member_id) \in SeqIds(ms) THEN SqlId(member_id) ELSE NULL

\* SELECT group_id FROM attendance_sessions WHERE id = ?: the row id or NULL
SessionById(ss, session_id) ==
    IF SqlId(session_id) \in SeqIds(ss) THEN SqlId(session_id) ELSE NULL

\* user.id != member_tg_id and (not invoker or invoker[2] != "admin")
\* a mutation of Denied: the role of the invoker's row is not read, only
\* that the row exists
Denied_rowonly(ms, group_id, user, row) ==
    /\ user # ms[row].telegram_id
    /\ get_member_by_telegram(ms, group_id, user) = NULL

\* if user.id != member_tg_id and (not invoker or invoker[2] != "admin")
Denied(ms, group_id, user, row) ==
    /\ user # ms[row].telegram_id
    /\ ~IsAdminInvoker(ms, group_id, user)

\* a mutation of callback_result: a choose stores the selection as a record
callback_result_preselect(user, parts) ==
    IF /\ parts[1] = "choose"
       /\ Len(parts) = 3
       /\ MemberById(members, parts[3]) # NULL
       /\ SessionById(attendance_sessions, parts[2]) # NULL
    THEN [res |-> "controls",
          records |-> record_attendance(attendance_records, SqlId(parts[2]),
                                        SqlId(parts[3]), "present", clock)]
    ELSE [res |-> "ignored", records |-> attendance_records]

\* the outcome of callback_handler and the attendance_records table after it
callback_result(user, parts) ==
    LET row == MemberById(members, parts[3])
        session == SessionById(attendance_sessions, parts[2])
        group_id == attendance_sessions[session].group_id
        keep(res) == [res |-> res, records |-> attendance_records]
    IN IF parts[1] = "choose"
       THEN IF Len(parts) # 3 THEN keep("crash")
            ELSE IF row = NULL THEN keep("member_not_found")
            ELSE IF session = NULL THEN keep("crash")
            ELSE IF Denied(members, group_id, user, row) THEN keep("denied")
            ELSE keep("controls")
       ELSE IF parts[1] = "mark"
       THEN IF Len(parts) # 4 THEN keep("crash")
            ELSE IF row = NULL THEN keep("member_not_found")
            ELSE IF session = NULL THEN keep("crash")
            ELSE IF Denied(members, group_id, user, row) THEN keep("denied")
            ELSE [res |-> "marked",
                  records |-> record_attendance(attendance_records,
                                  SqlId(parts[2]), SqlId(parts[3]), parts[4],
                                  clock)]
       ELSE keep("ignored")

\* what a call of the transport shows and to whom: query.answer is shown to
\* the clicking user, reply_text and edit_message_text are messages of the chat
Shown(via, text) ==
    [via |-> via, text |-> text,
     to |-> IF via = "answer" THEN "actor" ELSE "chat"]

\* a mutation of callback_replies: every notice is posted to the chat
callback_replies_posted(user, parts) ==
    LET res == callback_result(user, parts).res
    IN IF res = "denied"
       THEN {Shown("reply_text", "You cannot mark for another member.")}
       ELSE IF res = "controls"
       THEN {Shown("reply_text", "choose your attendance status")}
       ELSE IF res = "marked" THEN {Shown("reply_text", "marked as")}
       ELSE {}

\* the calls callback_handler makes on the transport, after the empty
\* query.answer() it starts with
callback_replies(user, parts) ==
    LET res == callback_result(user, parts).res
        ack == Shown("answer", "")
    IN IF res = "member_not_found"
       THEN IF parts[1] = "choose"
            THEN {ack, Shown("edit_message_text",
                             "Member not found (maybe removed).")}
            ELSE {ack, Shown("answer", "Member not found")}
       ELSE IF res = "denied"
       THEN {ack, Shown("answer", "You cannot mark for another member.")}
       ELSE IF res = "controls"
       THEN {ack, Shown("reply_text", "choose your attendance status")}
       ELSE IF res = "marked"
       THEN {ack, Shown("answer", "Marked"), Shown("reply_text", "marked as")}
       ELSE {ack}

callback_handler(user, parts) ==
    /\ Polling
    /\ LET r == callback_result(user, parts)
       IN /\ Fits(groups, members, attendance_sessions, r.records,
                  scheduled_jobs)
          /\ attendance_records' = r.records
          /\ out' = Out(parts[1], r.res, NULL)
    /\ UNCHANGED <<groups, members, attendance_sessions, scheduled_jobs,
                   scheduler, APP_INSTANCE, pending, prompts, clock, restarts>>

\* time passes
Tick ==
    /\ clock < MaxClock
    /\ clock' = clock + 1
    /\ UNCHANGED <<groups, members, attendance_sessions, attendance_records,
                   scheduled_jobs, scheduler, APP_INSTANCE, pending, prompts,
                   restarts, out>>

\* ------------------------------------------------------------- scheduler
JobNames == {"daily", "weekly"}
ScheduleArgs ==
    {NoArgs, <<"sun", "x", "0", "daily">>, <<"xyz", "9", "0", "daily">>}
        \cup {<<"sun", h, m, n>> : h \in {"9", "23", "24", "-1"},
                                   m \in {"0", "60"}, n \in JobNames}

DaysOfWeek == {"mon", "tue", "wed", "thu", "fri", "sat", "sun"}

\* CronTrigger(**cron_expr) accepts the expression (it raises ValueError
\* for a field outside its range)
CronValid(cron_expr) ==
    /\ cron_expr.day_of_week \in DaysOfWeek
    /\ cron_expr.hour \in 0..23
    /\ cron_expr.minute \in 0..59

Job(chat, job_name, cron_expr) ==
    [chat |-> chat, job_name |-> job_name, cron_expr |-> cron_expr]

\* scheduler.add_job(..., id=f"job-{group_chat_id}-{job_name}") on the
\* started scheduler finds the id taken (it raises ConflictingIdError)
IdConflict(jobs, chat, job_name) ==
    \E j \in jobs : j.chat = chat /\ j.job_name = job_name

JobRow(group_id, cron_expr, job_name) ==
    [group_id |-> group_id, cron_expr |-> cron_expr, job_name |-> job_name]

\* the outcome of schedule_attendance_job, the live jobs and the
\* scheduled_jobs table after it
schedule_attendance_job(group_chat_id, cron_expr, job_name) ==
    IF ~CronValid(cron_expr)
    THEN [res |-> "crash", scheduler |-> scheduler, rows |-> scheduled_jobs]
    ELSE IF IdConflict(scheduler, group_chat_id, job_name)
    THEN [res |-> "crash", scheduler |-> scheduler, rows |-> scheduled_jobs]
    ELSE [res |-> "scheduled",
          scheduler |-> scheduler \cup {Job(group_chat_id, job_name, cron_expr)},
          rows |-> Append(scheduled_jobs,
                          JobRow(get_group_by_chat(groups, group_chat_id),
                                 cron_expr, job_name))]

schedule_command_result(chat, user, args) ==
    LET group_id == get_group_by_chat(groups, chat)
        keep(res) == [res |-> res, scheduler |-> scheduler,
                      rows |-> scheduled_jobs]
    IN IF ~IsGroupChat(chat) THEN keep("not_group")
       ELSE IF group_id = NULL THEN keep("group_not_registered")
       ELSE IF ~IsAdminInvoker(members, group_id, user) THEN keep("not_admin")
       ELSE IF Len(args) < 4 THEN keep("usage")
       ELSE IF ~IsIntLit(args[2]) \/ ~IsIntLit(args[3]) THEN keep("not_integers")
       ELSE schedule_attendance_job(chat,
                [day_of_week |-> args[1], hour |-> ParseInt(args[2]),
                 minute |-> ParseInt(args[3])],
                args[4])

schedule_command(chat, user, args) ==
    /\ Polling
    /\ LET r == schedule_command_result(chat, user, args)
       IN /\ Len(r.rows) <= MaxJobs
          /\ Fits(groups, members, attendance_sessions, attendance_records,
                  r.rows)
          /\ scheduler' = r.scheduler
          /\ scheduled_jobs' = r.rows
          /\ out' = Out("schedule", r.res, NULL)
    /\ UNCHANGED <<groups, members, attendance_sessions, attendance_records,
                   APP_INSTANCE, pending, prompts, clock, restarts>>

\* ------------------------------------------------------------- reporting
ReportArgs ==
    {NoArgs, <<"latest">>, <<"x">>} \cup {<<IntStr(i)>> : i \in 0..MaxSessions}

\* ... WHERE group_id = ? ORDER BY id DESC LIMIT 1: the row id or NULL
LatestSession(ss, group_id) ==
    LET own == {i \in SeqIds(ss) : ss[i].group_id = group_id}
    IN IF own = {} THEN NULL ELSE CHOOSE i \in own : \A j \in own : j <= i

\* a mutation of SessionOfGroup: the query without "AND group_id = ?"
SessionOfGroup_anygroup(ss, sid, group_id) ==
    IF sid \in SeqIds(ss) THEN sid ELSE NULL

\* ... WHERE id = ? AND group_id = ?: the row id or NULL
SessionOfGroup(ss, sid, group_id) ==
    IF sid \in SeqIds(ss) /\ ss[sid].group_id = group_id THEN sid ELSE NULL

\* the outcome of report_command and export_csv_command up to the
\* resolution of the session, and the session resolved
resolve_session(gs, ss, chat, args) ==
    LET group_id == get_group_by_chat(gs, chat)
        row == IF args[1] = "latest"
               THEN LatestSession(ss, group_id)
               ELSE SessionOfGroup(ss, ParseInt(args[1]), group_id)
        fail(res) == [res |-> res, session_id |-> NULL]
    IN IF ~IsGroupChat(chat) THEN fail("not_group")
       ELSE IF group_id = NULL THEN fail("group_not_registered")
       ELSE IF args = NoArgs THEN fail("usage")
       ELSE IF args[1] # "latest" /\ ~IsIntLit(args[1])
       THEN fail("invalid_session_id")
       ELSE IF row = NULL THEN fail("session_not_found")
       ELSE [res |-> "resolved", session_id |-> row]

report_command(chat, args) ==
    /\ Polling
    /\ LET r == resolve_session(groups, attendance_sessions, chat, args)
       IN out' = Out("report", r.res, r.session_id)
    /\ UNCHANGED <<groups, members, attendance_sessions, attendance_records,
                   scheduled_jobs, scheduler, APP_INSTANCE, pending, prompts,
                   clock, restarts>>

\* writer.writerow(["Full Name", "Status", "Timestamp"]), as its fields
ExportHeader == <<"Full Name", "Status", "Timestamp">>

\* SELECT m.full_name, r.status, r.timestamp of a record joined to its member
CsvRow(ms, r) == <<ms[r.member_id].full_name, r.status, r.timestamp>>

\* ... JOIN members m ON m.id = r.member_id WHERE r.session_id = ? ORDER BY
\* m.full_name: the orders fetchall can give the joined records in (rows of
\* equal name come in either order)
ExportOrders(rs, ms, session_id) ==
    LET joined == {r \in get_session_records(rs, session_id) :
                      r.member_id \in SeqIds(ms)}
        n == Cardinality(joined)
    IN {q \in [1..n -> joined] :
          /\ \A i, j \in 1..n : i # j => q[i] # q[j]
          /\ \A i, j \in 1..n :
                i < j => NameRank(ms[q[i].member_id].full_name)
                           <= NameRank(ms[q[j].member_id].full_name)}

\* the files export_csv_command can send for a session: the header, then a
\* line per fetched row
export_documents(rs, ms, session_id) ==
    {<<ExportHeader>> \o [i \in 1..Len(q) |-> CsvRow(ms, q[i])] :
        q \in ExportOrders(rs, ms, session_id)}

export_csv_command(chat, args) ==
    /\ Polling
    /\ LET r == resolve_session(groups, attendance_sessions, chat, args)
       IN out' = Out("export", r.res, r.session_id)
    /\ UNCHANGED <<groups, members, attendance_sessions, attendance_records,
                   scheduled_jobs, scheduler, APP_INSTANCE, pending, prompts,
                   clock, restarts>>

\* ------------------------------------------------------- process lifecycle
\* the process ends and the module is loaded again: init_db keeps the
\* tables, scheduler is a new BackgroundScheduler, APP_INSTANCE is None, and
\* the coroutines in flight are gone
Restart ==
    /\ restarts < MaxRestarts
    /\ restarts' = restarts + 1
    /\ scheduler' = {}
    /\ APP_INSTANCE' = FALSE
    /\ pending' = {}
    /\ out' = Out("restart", "down", NULL)
    /\ UNCHANGED <<groups, members, attendance_sessions, attendance_records,
                   scheduled_jobs, prompts, clock>>

\* main: build the application, post_init, then polling
post_init ==
    /\ ~APP_INSTANCE
    /\ APP_INSTANCE' = TRUE
    /\ out' = Out("post_init", "ready", NULL)
    /\ UNCHANGED <<groups, members, attendance_sessions, attendance_records,
                   scheduled_jobs, scheduler, pending, prompts, clock, restarts>>

\* ------------------------------------------------------------ specification
Init ==
    /\ groups = <<>>
    /\ members = <<>>
    /\ attendance_sessions = <<>>
    /\ attendance_records = {}
    /\ scheduled_jobs = <<>>
    /\ scheduler = {}
    /\ APP_INSTANCE = FALSE
    /\ pending = {}
    /\ prompts = <<>>
    /\ clock = 0
    /\ restarts = 0
    /\ out = Out("import", "loaded", NULL)

Next ==
    \/ \E chat \in Chats, user \in Users, is_chat_admin \in BOOLEAN :
          start(chat, user, is_chat_admin)
    \/ \E chat \in Chats, user \in Users, args \in RegisterArgs :
          register(chat, user, args)
    \/ \E chat \in Chats, user \in Users, args \in AddMemberArgs :
          add_member(chat, user, args)
    \/ \E chat \in Chats, user \in Users, args \in PromoteArgs :
          promote_member(chat, user, args)
    \/ \E chat \in Chats, user \in Users : attendance_command(chat, user)
    \/ \E user \in Users, parts \in Tokens : callback_handler(user, parts)
    \/ \E chat \in Chats, args \in ReportArgs : report_command(chat, args)
    \/ \E chat \in Chats, args \in ReportArgs : export_csv_command(chat, args)
    \/ \E chat \in Chats, user \in Users, args \in ScheduleArgs :
          schedule_command(chat, user, args)
    \/ \E job \in scheduler : Fire(job)
    \/ \E job \in scheduler : FireDropped(job)
    \/ \E p \in pending : Deliver(p)
    \/ \E p \in pending : SendFails(p)
    \/ Tick
    \/ Restart
    \/ post_init

Spec == Init /\ [][Next]_vars

\* The runs below are runs of Spec: each takes the same steps with fewer
\* handlers and fewer inputs, so that the tables it is about can fill up.

\* the roster commands, with every argument list
NextRoster ==
    \/ post_init
    \/ \E chat \in Chats, user \in Users, is_chat_admin \in BOOLEAN :
          start(chat, user, is_chat_admin)
    \/ \E chat \in Chats, user \in Users, args \in RegisterArgs :
          register(chat, user, args)
    \/ \E chat \in Chats, user \in Users, args \in AddMemberArgs :
          add_member(chat, user, args)
    \/ \E chat \in Chats, user \in Users, args \in PromoteArgs :
          promote_member(chat, user, args)

SpecRoster == Init /\ [][NextRoster]_vars

\* rosters of admins and members, sessions, and every activation
NextMark ==
    \/ post_init
    \/ \E chat \in GroupChats, user \in Users, is_chat_admin \in BOOLEAN :
          start(chat, user, is_chat_admin)
    \/ \E chat \in GroupChats, user \in Users : register(chat, user, NoArgs)
    \/ \E chat \in GroupChats : attendance_command(chat, 1)
    \/ \E p \in pending : Deliver(p)
    \/ \E user \in Users, parts \in LiveTokens : callback_handler(user, parts)

SpecMark == Init /\ [][NextMark]_vars

\* the activations that write: marks of every status on the rows that exist
LiveMarkTokens ==
    {<<"mark", IntStr(s), IntStr(m), st>> :
        s \in 1..Len(attendance_sessions), m \in 1..Len(members),
        st \in Statuses}

\* marks over time
NextRecords ==
    \/ post_init
    \/ \E chat \in GroupChats, user \in Users : start(chat, user, TRUE)
    \/ \E chat \in GroupChats, user \in Users : register(chat, user, NoArgs)
    \/ \E chat \in GroupChats : attendance_command(chat, 1)
    \/ \E p \in pending : Deliver(p)
    \/ \E user \in Users, parts \in LiveMarkTokens :
          callback_handler(user, parts)
    \/ Tick

SpecRecords == Init /\ [][NextRecords]_vars

\* the buttons of the prompts delivered so far
PromptTokens == UNION {prompts[i].tokens : i \in SeqIds(prompts)}

\* manual and scheduled sessions, their prompts, and the reports
NextSession ==
    \/ post_init
    \/ \E chat \in GroupChats, user \in Users, is_chat_admin \in BOOLEAN :
          start(chat, user, is_chat_admin)
    \/ \E chat \in Chats, user \in Users : attendance_command(chat, user)
    \/ \E chat \in GroupChats, user \in Users :
          schedule_command(chat, user, <<"sun", "9", "0", "daily">>)
    \/ \E job \in scheduler : Fire(job)
    \/ \E p \in pending : Deliver(p)
    \/ \E p \in pending : SendFails(p)
    \/ \E user \in Users, parts \in PromptTokens : callback_handler(user, parts)
    \/ \E chat \in Chats, args \in ReportArgs : report_command(chat, args)
    \/ \E chat \in Chats, args \in ReportArgs : export_csv_command(chat, args)

SpecSession == Init /\ [][NextSession]_vars

\* arming, firing and restarting
NextSchedule ==
    \/ post_init
    \/ \E chat \in GroupChats, user \in Users : start(chat, user, TRUE)
    \/ \E chat \in Chats, user \in Users, args \in ScheduleArgs :
          schedule_command(chat, user, args)
    \/ \E job \in scheduler : Fire(job)
    \/ \E job \in scheduler : FireDropped(job)
    \/ \E p \in pending : Deliver(p)
    \/ Restart

SpecSchedule == Init /\ [][NextSchedule]_vars

\* the privileged commands, issued by admins, members and strangers
NextGate ==
    \/ post_init
    \/ \E chat \in GroupChats, user \in Users, is_chat_admin \in BOOLEAN :
          start(chat, user, is_chat_admin)
    \/ \E chat \in GroupChats, user \in Users : register(chat, user, NoArgs)
    \/ \E chat \in Chats, user \in Users, args \in AddMemberArgs :
          add_member(chat, user, args)
    \/ \E chat \in Chats, user \in Users, args \in PromoteArgs :
          promote_member(chat, user, args)
    \/ \E chat \in Chats, user \in Users :
          schedule_command(chat, user, <<"sun", "9", "0", "daily">>)

SpecGate == Init /\ [][NextGate]_vars

\* named rosters, marks, and the exports of their sessions
NextExport ==
    \/ post_init
    \/ \E chat \in GroupChats, user \in Users, args \in RegisterArgs :
          register(chat, user, args)
    \/ \E chat \in GroupChats : attendance_command(chat, 1)
    \/ \E p \in pending : Deliver(p)
    \/ \E user \in Users, parts \in LiveMarkTokens :
          callback_handler(user, parts)
    \/ Tick
    \/ \E chat \in Chats, args \in ReportArgs : export_csv_command(chat, args)

SpecExport == Init /\ [][NextExport]_vars

\* the name buttons of the rows that exist, and the Present button of each
ChooseThenPresent ==
    {<<"choose", IntStr(s), IntStr(m)>> :
        s \in 1..Len(attendance_sessions), m \in 1..Len(members)}
    \cup {MarkToken(IntStr(s), IntStr(m), "present") :
        s \in 1..Len(attendance_sessions), m \in 1..Len(members)}

\* roles given and taken away between the activations of one user
NextStale ==
    \/ post_init
    \/ \E chat \in GroupChats, user \in Users : start(chat, user, TRUE)
    \/ \E chat \in GroupChats, user \in Users : register(chat, user, NoArgs)
    \/ \E chat \in GroupChats, user \in Users, target \in Users :
          promote_member(chat, user, <<IntStr(target)>>)
    \/ \E chat \in GroupChats : attendance_command(chat, 1)
    \/ \E p \in pending : Deliver(p)
    \/ \E parts \in ChooseThenPresent : callback_handler(1, parts)

SpecStale == Init /\ [][NextStale]_vars

\* every command and activation that admins, members and strangers can send
NextRoles ==
    \/ post_init
    \/ \E chat \in GroupChats, user \in Users, is_chat_admin \in BOOLEAN :
          start(chat, user, is_chat_admin)
    \/ \E chat \in GroupChats, user \in Users : register(chat, user, NoArgs)
    \/ \E chat \in GroupChats, user \in Users, target \in Users :
          add_member(chat, user, <<IntStr(target), "Alice">>)
    \/ \E chat \in GroupChats, user \in Users, target \in Users :
          promote_member(chat, user, <<IntStr(target)>>)
    \/ \E chat \in GroupChats, user \in Users :
          schedule_command(chat, user, <<"sun", "9", "0", "daily">>)
    \/ \E chat \in GroupChats : attendance_command(chat, 1)
    \/ \E p \in pending : Deliver(p)
    \/ \E user \in Users, parts \in ChooseThenPresent :
          callback_handler(user, parts)

SpecRoles == Init /\ [][NextRoles]_vars

\* ------------------------------------------------------------------ claims
\* vocabulary of the claims, stated on the tables
GroupOfChat(chat) ==
    IF \E g \in SeqIds(groups) : groups[g] = chat
    THEN CHOOSE g \in SeqIds(groups) : groups[g] = chat
    ELSE NULL

HasRowIn(group_id, user) ==
    \E i \in SeqIds(members) :
        members[i].group_id = group_id /\ members[i].telegram_id = user

ActiveAdminIn(group_id, user) ==
    \E i \in SeqIds(members) :
        /\ members[i].group_id = group_id
        /\ members[i].telegram_id = user
        /\ members[i].active
        /\ members[i].role = "admin"

NoActiveMembers(group_id) ==
    ~\E i \in SeqIds(members) :
        members[i].group_id = group_id /\ members[i].active

\* a choose token of three parts or a mark token of four
WellFormed(parts) ==
    \/ parts[1] = "choose" /\ Len(parts) = 3
    \/ parts[1] = "mark" /\ Len(parts) = 4

\* the token names a member row and a session row that exist
NamesRows(parts) ==
    /\ SqlId(parts[3]) \in SeqIds(members)
    /\ SqlId(parts[2]) \in SeqIds(attendance_sessions)

SamePair(r, session_id, member_id) ==
    r.session_id = session_id /\ r.member_id = member_id

\* C1: the store holds at most one record per (session, member) pair, and
\* an approved mark leaves exactly one record for its pair, with the
\* status of that mark and a timestamp not below the one it replaces, and
\* leaves the records of the other pairs as they were.
C1_OneRecordPerPair ==
    /\ \A r1, r2 \in attendance_records :
          SamePair(r1, r2.session_id, r2.member_id) => r1 = r2
    /\ \A user \in Users, parts \in Tokens :
          LET r == callback_result(user, parts)
              sid == SqlId(parts[2])
              mid == SqlId(parts[3])
          IN r.res = "marked" =>
               /\ Cardinality({x \in r.records : SamePair(x, sid, mid)}) = 1
               /\ \A x \in r.records : SamePair(x, sid, mid) =>
                     /\ x.status = parts[4]
                     /\ \A old \in attendance_records :
                           SamePair(old, sid, mid) => old.timestamp <= x.timestamp
               /\ {x \in r.records : ~SamePair(x, sid, mid)}
                    = {x \in attendance_records : ~SamePair(x, sid, mid)}

\* C1 witness: a mark has just been applied, and a pair that holds a record
\* can be marked again, later and with another status
C1_Witness ==
    /\ out = Out("mark", "marked", NULL)
    /\ \E x \in attendance_records, user \in Users, st \in Statuses :
          /\ st # x.status
          /\ x.timestamp < clock
          /\ callback_result(user, <<"mark", IntStr(x.session_id),
                                     IntStr(x.member_id), st>>).res = "marked"

\* C2: for a well-formed choose or mark token that names an existing member
\* and session, an actor whose identifier is the target member's is
\* approved, and any other actor is approved exactly when it is an active
\* admin of the group that owns the session.
C2_SelfOrAdmin ==
    \A user \in Users, parts \in Tokens :
        (WellFormed(parts) /\ NamesRows(parts)) =>
            LET r == callback_result(user, parts)
                approved == r.res \in {"controls", "marked"}
                target == members[SqlId(parts[3])]
                group_id == attendance_sessions[SqlId(parts[2])].group_id
            IN IF target.telegram_id = user THEN approved
               ELSE approved <=> ActiveAdminIn(group_id, user)

\* C2 witness: a mark has just been applied, and an admin can mark for
\* another member whose pair holds a record
C2_Witness ==
    /\ out = Out("mark", "marked", NULL)
    /\ \E user \in Users, x \in attendance_records :
          /\ members[x.member_id].telegram_id # user
          /\ ActiveAdminIn(attendance_sessions[x.session_id].group_id, user)
          /\ callback_result(user, <<"mark", IntStr(x.session_id),
                                     IntStr(x.member_id), "late">>).res = "marked"

\* C3: a mark token for a session of group A, activated by an identity with
\* no member row in group A, is denied and writes no record.
C3_NoRowInGroupDenied ==
    \A user \in Users, parts \in Tokens :
        (/\ parts[1] = "mark"
         /\ Len(parts) = 4
         /\ NamesRows(parts)
         /\ ~HasRowIn(attendance_sessions[SqlId(parts[2])].group_id, user)) =>
            LET r == callback_result(user, parts)
            IN r.res = "denied" /\ r.records = attendance_records

\* the members table ms is members with row i given the name and the role,
\* made active, and nothing else changed
SecondCall(ms, i, full_name, role) ==
    /\ Len(ms) = Len(members)
    /\ ms[i] = [members[i] EXCEPT !.full_name = full_name, !.role = role,
                                  !.active = TRUE]
    /\ \A j \in SeqIds(members) : j # i => ms[j] = members[j]

\* C4: the members table holds at most one row per (group, user) pair, and
\* start, register and add_member on a pair that has a row add no row and
\* leave that row with the name and the role of the call, active.
C4_OneRowPerPair ==
    /\ \A i, j \in SeqIds(members) :
          (members[i].group_id = members[j].group_id
             /\ members[i].telegram_id = members[j].telegram_id) => i = j
    /\ \A chat \in GroupChats, i \in SeqIds(members) :
          members[i].group_id = GroupOfChat(chat) =>
             LET user == members[i].telegram_id
             IN /\ \A args \in RegisterArgs :
                      SecondCall(register_result(chat, user, args).members, i,
                                 IF args = NoArgs THEN UserFullName(user)
                                 ELSE args[1],
                                 "member")
                /\ SecondCall(start_result(chat, user, TRUE).members, i,
                              UserFullName(user), "admin")
                /\ \A caller \in Users, n \in Names :
                      LET r == add_member_result(chat, caller,
                                                 <<IntStr(user), n>>)
                      IN r.res = "added" => SecondCall(r.members, i, n, "member")

\* C4 witness: add_member has just added, and the table has one row: the
\* admin who called it named its own pair
C4_Witness ==
    /\ out = Out("add_member", "added", NULL)
    /\ Len(members) = 1
    /\ members[1].role = "member"

\* C5: starting a session on a registered group with no active member
\* answers "no members"; right after that answer the new session is stored
\* with no prompt association, no prompt for it is in flight or delivered,
\* and latest resolves to it in its group.
C5_EmptyRosterPersists ==
    /\ \A chat \in GroupChats, user \in Users :
          (GroupOfChat(chat) # NULL /\ NoActiveMembers(GroupOfChat(chat))) =>
             /\ attendance_result(chat, user).res = "no_members"
             /\ APP_INSTANCE =>
                   post_scheduled_attendance(chat).res = "no_members"
    /\ (out.op \in {"attendance", "scheduled_post"} /\ out.res = "no_members") =>
          /\ out.session_id \in SeqIds(attendance_sessions)
          /\ attendance_sessions[out.session_id].message_id = NULL
          /\ ~\E p \in pending : p.session_id = out.session_id
          /\ ~\E i \in SeqIds(prompts) : prompts[i].session_id = out.session_id
          /\ \A chat \in GroupChats :
                GroupOfChat(chat) = attendance_sessions[out.session_id].group_id =>
                   resolve_session(groups, attendance_sessions, chat, <<"latest">>)
                     = [res |-> "resolved", session_id |-> out.session_id]

\* C5 witness: /attendance has just answered "no members" for the session
\* it created
C5_Witness ==
    /\ out.op = "attendance"
    /\ out.res = "no_members"
    /\ out.session_id = Len(attendance_sessions)
    /\ NoActiveMembers(attendance_sessions[out.session_id].group_id)

\* the sessions of a group
SessionsOf(group_id) ==
    {i \in SeqIds(attendance_sessions) :
        attendance_sessions[i].group_id = group_id}

\* C6: report and export in the chat of group G resolve only sessions of G:
\* the identifier of a session of another group answers "session not found"
\* and resolves nothing, and latest resolves to the newest session of G.
C6_SessionScopedToGroup ==
    \A chat \in Chats, args \in ReportArgs :
        LET r == resolve_session(groups, attendance_sessions, chat, args)
            g == GroupOfChat(chat)
        IN /\ r.res = "resolved" =>
                /\ g # NULL
                /\ r.session_id \in SessionsOf(g)
           /\ (/\ g # NULL
               /\ args # NoArgs
               /\ IsIntLit(args[1])
               /\ ParseInt(args[1]) \in SeqIds(attendance_sessions)
               /\ ParseInt(args[1]) \notin SessionsOf(g)) =>
                  r = [res |-> "session_not_found", session_id |-> NULL]
           /\ (g # NULL /\ args = <<"latest">>) =>
                IF SessionsOf(g) = {}
                THEN r = [res |-> "session_not_found", session_id |-> NULL]
                ELSE /\ r.res = "resolved"
                     /\ \A i \in SessionsOf(g) : i <= r.session_id

\* C6 witness: a report has just answered "session not found" in the chat of
\* a group that has a session, while another group has a session too
C6_Witness ==
    /\ out = Out("report", "session_not_found", NULL)
    /\ \E g1, g2 \in SeqIds(groups) :
          g1 # g2 /\ SessionsOf(g1) # {} /\ SessionsOf(g2) # {}

\* the recurrence a schedule command of four arguments asks for
CronOfArgs(args) ==
    [day_of_week |-> args[1], hour |-> ParseInt(args[2]),
     minute |-> ParseInt(args[3])]

\* a schedule command of four arguments with an integer hour and minute
IntegerSchedule(args) ==
    Len(args) = 4 /\ IsIntLit(args[2]) /\ IsIntLit(args[3])

InRange(cron_expr) ==
    cron_expr.hour \in 0..23 /\ cron_expr.minute \in 0..59

LiveJobsOf(jobs, chat, job_name) ==
    {j \in jobs : j.chat = chat /\ j.job_name = job_name}

\* C7: when an admin arms a (group, job name) key that has a live trigger,
\* with a recurrence in range, the live jobs afterwards hold exactly one
\* trigger for the key and it carries the recurrence of this arm.
C7_RearmReplaces ==
    \A chat \in GroupChats, user \in Users, args \in ScheduleArgs :
        (/\ ActiveAdminIn(GroupOfChat(chat), user)
         /\ IntegerSchedule(args)
         /\ args[1] \in DaysOfWeek
         /\ InRange(CronOfArgs(args))
         /\ LiveJobsOf(scheduler, chat, args[4]) # {}) =>
            LET after == LiveJobsOf(schedule_command_result(chat, user, args).scheduler,
                                    chat, args[4])
            IN /\ Cardinality(after) = 1
               /\ \A j \in after : j.cron_expr = CronOfArgs(args)

\* C8: a delivered scheduled prompt belongs to a session with no creator
\* whose prompt association is that message, and each of its buttons is a
\* choose token of three parts that the handler takes as it takes a manual
\* prompt's: it answers with the status controls or denies.
C8_ScheduledPromptAsManual ==
    \A i \in SeqIds(prompts) :
        prompts[i].by = "scheduled" =>
            /\ attendance_sessions[prompts[i].session_id].created_by = NULL
            /\ attendance_sessions[prompts[i].session_id].message_id = i
            /\ \A parts \in prompts[i].tokens :
                  /\ parts[1] = "choose"
                  /\ Len(parts) = 3
                  /\ \A user \in Users :
                        callback_result(user, parts).res \in {"controls", "denied"}

\* C9: while the application runs, every stored scheduled_jobs row has a
\* live trigger under its (group, job name) key.
C9_RowsArmedWhileRunning ==
    APP_INSTANCE =>
        \A i \in SeqIds(scheduled_jobs) :
            \E j \in scheduler :
                /\ GroupOfChat(j.chat) = scheduled_jobs[i].group_id
                /\ j.job_name = scheduled_jobs[i].job_name

\* C10: a schedule command by an admin with an hour outside 0..23 or a
\* minute outside 0..59 is answered with an invalid-schedule message, and
\* registers no trigger and stores no row.
C10_InvalidScheduleReported ==
    \A chat \in GroupChats, user \in Users, args \in ScheduleArgs :
        (/\ ActiveAdminIn(GroupOfChat(chat), user)
         /\ IntegerSchedule(args)
         /\ ~InRange(CronOfArgs(args))) =>
            LET r == schedule_command_result(chat, user, args)
            IN /\ r.res = "invalid_schedule"
               /\ r.scheduler = scheduler
               /\ r.rows = scheduled_jobs

\* the outcomes of the privileged commands that change the tables
GatedOutcome ==
    \/ out.op = "add_member" /\ out.res = "added"
    \/ out.op = "promote" /\ out.res = "promoted"
    \/ out.op = "schedule" /\ out.res = "scheduled"

\* C11: add_member, promote and schedule by a caller with no active admin row
\* in the chat's group give back the members table, the live jobs and the
\* scheduled_jobs table as they were and do not answer with success; and a
\* step of one of the three that does not answer with success changes no
\* table and no live job.
C11_NonAdminChangesNothing ==
    /\ [](\A chat \in Chats, user \in Users :
            ~ActiveAdminIn(GroupOfChat(chat), user) =>
                /\ \A args \in AddMemberArgs :
                      LET r == add_member_result(chat, user, args)
                      IN r.members = members /\ r.res # "added"
                /\ \A args \in PromoteArgs :
                      LET r == promote_member_result(chat, user, args)
                      IN r.members = members /\ r.res # "promoted"
                /\ \A args \in ScheduleArgs :
                      LET r == schedule_command_result(chat, user, args)
                      IN /\ r.scheduler = scheduler
                         /\ r.rows = scheduled_jobs
                         /\ r.res # "scheduled")
    /\ [][(out'.op \in {"add_member", "promote", "schedule"} /\ ~GatedOutcome')
            => (store' = store /\ scheduler' = scheduler)]_vars

\* a member who is not an admin was refused a schedule in a group that has
\* an admin and a roster
C11_Witness ==
    /\ out.op = "schedule" /\ out.res = "not_admin"
    /\ \E g \in SeqIds(groups) :
          /\ \E user \in Users : ActiveAdminIn(g, user)
          /\ \E user \in Users : HasRowIn(g, user) /\ ~ActiveAdminIn(g, user)

\* the lines of a file after its header
DataLines(doc) == 2..Len(doc)

\* C12: every file an export of a resolved session can send starts with the
\* header Full Name,Status,Timestamp; after it, each line is the name,
\* current status and timestamp of a record of that session, each such
\* line occurs as many times as the session has records that read so (one
\* line per record, none from another session), and the lines are in the
\* order of the members' names.
C12_ExportRows ==
    \A chat \in Chats, args \in ReportArgs :
        LET r == resolve_session(groups, attendance_sessions, chat, args)
            own == {x \in attendance_records : x.session_id = r.session_id}
        IN r.res = "resolved" =>
            /\ export_documents(attendance_records, members, r.session_id) # {}
            /\ \A doc \in export_documents(attendance_records, members,
                                            r.session_id) :
                  /\ doc[1] = <<"Full Name", "Status", "Timestamp">>
                  /\ Len(doc) = 1 + Cardinality(own)
                  /\ \A i \in DataLines(doc) :
                        Cardinality({j \in DataLines(doc) : doc[j] = doc[i]})
                          = Cardinality({x \in own :
                                <<members[x.member_id].full_name, x.status,
                                  x.timestamp>> = doc[i]})
                  /\ \A i, j \in DataLines(doc) :
                        i < j => NameRank(doc[i][1]) <= NameRank(doc[j][1])

\* an export resolved a session with two records whose members' names are
\* in the other order than their row ids
C12_Witness ==
    /\ out.op = "export" /\ out.res = "resolved"
    /\ \E x, y \in attendance_records :
          /\ x.session_id = out.session_id /\ y.session_id = out.session_id
          /\ x.member_id < y.member_id
          /\ NameRank(members[x.member_id].full_name)
               > NameRank(members[y.member_id].full_name)

\* the mark tokens of four parts that name a member row and a session row
MarkTokensOfRows == {parts \in LiveMarkTokens : NamesRows(parts)}

\* the actor is the member the token names, or has an active admin row in
\* the group of the session it names, by the tables as they are
AuthorisedNow(user, parts) ==
    \/ members[SqlId(parts[3])].telegram_id = user
    \/ ActiveAdminIn(attendance_sessions[SqlId(parts[2])].group_id, user)

\* C13: in every state a mark writes exactly when its actor is, by the
\* tables of that state, the target member or an active admin of the
\* session's group; and across any step, an actor whose choose or mark for a
\* pair was approved before the step and who is not authorised after it is
\* denied after it with no record written, and an actor who was denied
\* before and is authorised after it is approved.
C13_AuthorisedAtMarkTime ==
    /\ [](\A user \in Users, parts \in MarkTokensOfRows :
            LET r == callback_result(user, parts)
            IN IF AuthorisedNow(user, parts)
               THEN r.res = "marked"
               ELSE r.res = "denied" /\ r.records = attendance_records)
    /\ [][\A user \in Users, parts \in MarkTokensOfRows :
            LET choose == <<"choose", parts[2], parts[3]>>
                before == callback_result(user, choose).res = "controls"
                            \/ callback_result(user, parts).res = "marked"
            IN /\ (before /\ ~AuthorisedNow(user, parts)') =>
                    /\ callback_result(user, parts)'.res = "denied"
                    /\ callback_result(user, parts)'.records
                         = attendance_records'
               /\ (~before /\ AuthorisedNow(user, parts)') =>
                    callback_result(user, parts)'.res = "marked"]_vars

\* only user 1 activates buttons: user 1 wrote a record for another member
\* as an admin, is no admin of that group any more, and has just been
\* denied a mark
C13_Witness ==
    /\ out = Out("mark", "denied", NULL)
    /\ \E x \in attendance_records :
          /\ members[x.member_id].telegram_id # 1
          /\ ~ActiveAdminIn(attendance_sessions[x.session_id].group_id, 1)
          /\ callback_result(1, <<"mark", IntStr(x.session_id),
                                  IntStr(x.member_id), "present">>).res = "denied"

\* C14: a well-formed choose or mark token that names a session or a member
\* with no row is answered with a not-found notice, with the records as
\* they were.
C14_MissingRowIsNotFound ==
    \A user \in Users, parts \in LiveTokens :
        (WellFormed(parts) /\ ~NamesRows(parts)) =>
            LET r == callback_result(user, parts)
            IN /\ r.res \in {"member_not_found", "session_not_found"}
               /\ r.records = attendance_records

\* the message, if any, that carries the buttons of a session
PromptOf(session_id) ==
    {k \in SeqIds(prompts) : prompts[k].session_id = session_id}

\* C15: a session's message_id is unset exactly while no prompt with its
\* buttons has been delivered and is otherwise that prompt's message; a
\* session starts with it unset; across every step each session row stays,
\* with its group, title and creator, a message_id that is set stays as it
\* is, and one that becomes set is the message delivered in that step.
C15_PromptAssociationSetOnce ==
    /\ [](\A i \in SeqIds(attendance_sessions) :
            /\ Cardinality(PromptOf(i)) <= 1
            /\ IF PromptOf(i) = {}
               THEN attendance_sessions[i].message_id = NULL
               ELSE attendance_sessions[i].message_id \in PromptOf(i))
    /\ [][/\ Len(attendance_sessions') >= Len(attendance_sessions)
          /\ \A i \in SeqIds(attendance_sessions') \ SeqIds(attendance_sessions) :
                attendance_sessions'[i].message_id = NULL
          /\ \A i \in SeqIds(attendance_sessions) :
                LET old == attendance_sessions[i]
                    new == attendance_sessions'[i]
                IN /\ new.group_id = old.group_id
                   /\ new.session_title = old.session_title
                   /\ new.created_by = old.created_by
                   /\ old.message_id # NULL => new.message_id = old.message_id
                   /\ (old.message_id = NULL /\ new.message_id # NULL) =>
                        /\ new.message_id = Len(prompts) + 1
                        /\ Len(prompts') = Len(prompts) + 1
                        /\ prompts'[new.message_id].session_id = i]_vars

\* a prompt has just been delivered for the second session, the first
\* keeps the message it was given, and both were unset at creation
C15_Witness ==
    /\ out.res = "prompt_sent"
    /\ Len(attendance_sessions) = 2
    /\ out.session_id = 2
    /\ attendance_sessions[1].message_id = 1
    /\ attendance_sessions[2].message_id = 2

\* C16: a choose or mark that the authorisation check denies gives back the
\* records as they were, tells the clicking user that it cannot mark for
\* another member, and shows nothing to the chat; and a step that answers
\* with a denial changes no table.
C16_DenialIsPrivate ==
    /\ [](\A user \in Users, parts \in LiveTokens :
            LET r == callback_result(user, parts)
                shown == callback_replies(user, parts)
            IN r.res = "denied" =>
                /\ r.records = attendance_records
                /\ \A m \in shown : m.to = "actor"
                /\ \E m \in shown :
                      m.text = "You cannot mark for another member.")
    /\ [][out'.res = "denied" => store' = store]_vars

\* a mark has just been denied in a store that holds a record: some user
\* is neither the member of that record nor an admin of its session's group
C16_Witness ==
    /\ out = Out("mark", "denied", NULL)
    /\ \E user \in Users, x \in attendance_records :
          callback_result(user, MarkToken(IntStr(x.session_id),
                                          IntStr(x.member_id), "absent")).res
            = "denied"

\* C17: a choose, approved or denied, gives back the records as they were;
\* and a step that is a choose changes no table and no live job, and leaves the outcome of every mark by every user what it was before
\* the step.
C17_ChooseLeavesNoTrace ==
    /\ [](\A user \in Users, parts \in LiveTokens :
            parts[1] = "choose" =>
                callback_result(user, parts).records = attendance_records)
    /\ [][out'.op = "choose" =>
            /\ store' = store
            /\ scheduler' = scheduler
            /\ \A user \in Users, parts \in LiveMarkTokens :
                  callback_result(user, parts)' = callback_result(user, parts)
         ]_vars

\* a choose has just been answered with the status controls while the
\* store holds a record
C17_Witness ==
    /\ out = Out("choose", "controls", NULL)
    /\ attendance_records # {}

\* the outcomes of a step in which a live trigger matched a tick
FireOutcomes ==
    {"sending", "no_members", "group_not_found", "no_application", "not_run"}

\* C18: a step in which a live trigger matches a tick adds exactly one
\* session, a session of the trigger's group with no creator, and goes on
\* to post for it: it is not dropped for a group that cannot be resolved,
\* for an application handle that is not set, or before the coroutine runs.
C18_EveryFireOneSession ==
    [][(out'.op = "scheduled_post" /\ out'.res \in FireOutcomes) =>
          /\ out'.res \in {"sending", "no_members"}
          /\ Len(attendance_sessions') = Len(attendance_sessions) + 1
          /\ out'.session_id = Len(attendance_sessions')
          /\ attendance_sessions'[out'.session_id].created_by = NULL
          /\ \E job \in scheduler :
                attendance_sessions'[out'.session_id].group_id
                  = GroupOfChat(job.chat)]_vars

\* C19: no two rows of scheduled_jobs have the same group and job name.
C19_JobNamesUniqueInGroup ==
    \A i, j \in SeqIds(scheduled_jobs) :
        (/\ scheduled_jobs[i].group_id = scheduled_jobs[j].group_id
         /\ scheduled_jobs[i].job_name = scheduled_jobs[j].job_name) => i = j

\* C20: every row of attendance_records has a status among present, late
\* and absent.
C20_StatusInClosedSet ==
    \A r \in attendance_records : r.status \in {"present", "late", "absent"}

\* C21: every row of attendance_records names a session row and a member
\* row that exist, and the member row is of the group of the session row.
C21_RecordWithinOneGroup ==
    \A r \in attendance_records :
        /\ r.session_id \in SeqIds(attendance_sessions)
        /\ r.member_id \in SeqIds(members)
        /\ members[r.member_id].group_id
             = attendance_sessions[r.session_id].group_id

\* row i of the table ms2 is an admin row and was not one in ms1
BecomesAdmin(ms1, ms2, i) ==
    /\ ms2[i].role = "admin"
    /\ i \in SeqIds(ms1) => ms1[i].role # "admin"

\* row i of the table ms2 is new or has another role than in ms1
RoleWritten(ms1, ms2, i) ==
    i \in SeqIds(ms1) => ms1[i].role # ms2[i].role

\* C22: register and add_member make no row an admin row; start makes only
\* the caller's own row one, and only for a caller the platform lists as a
\* chat administrator; promote makes a row one only when its caller is an
\* active admin of the chat's group; each of the four writes roles only in
\* rows of the chat's group; and a step of any other handler makes no row
\* an admin row.
C22_AdminOnlyByStartOrPromote ==
    /\ [](\A chat \in Chats, user \in Users :
            /\ \A args \in RegisterArgs :
                  LET r == register_result(chat, user, args)
                  IN \A i \in SeqIds(r.members) :
                        /\ ~BecomesAdmin(members, r.members, i)
                        /\ RoleWritten(members, r.members, i) =>
                             r.members[i].group_id
                               = get_group_by_chat(r.groups, chat)
            /\ \A args \in AddMemberArgs :
                  LET r == add_member_result(chat, user, args)
                  IN \A i \in SeqIds(r.members) :
                        /\ ~BecomesAdmin(members, r.members, i)
                        /\ RoleWritten(members, r.members, i) =>
                             r.members[i].group_id = GroupOfChat(chat)
            /\ \A is_chat_admin \in BOOLEAN :
                  LET r == start_result(chat, user, is_chat_admin)
                  IN \A i \in SeqIds(r.members) :
                        /\ BecomesAdmin(members, r.members, i) =>
                             /\ is_chat_admin
                             /\ r.members[i].telegram_id = user
                        /\ RoleWritten(members, r.members, i) =>
                             r.members[i].group_id
                               = get_group_by_chat(r.groups, chat)
            /\ \A args \in PromoteArgs :
                  LET r == promote_member_result(chat, user, args)
                  IN \A i \in SeqIds(r.members) :
                        /\ BecomesAdmin(members, r.members, i) =>
                             ActiveAdminIn(GroupOfChat(chat), user)
                        /\ RoleWritten(members, r.members, i) =>
                             r.members[i].group_id = GroupOfChat(chat))
    /\ [][\A i \in SeqIds(members') :
            BecomesAdmin(members, members', i) =>
                out'.op \in {"start", "promote"}]_vars

\* a promote has just succeeded in a store where two groups have rows and
\* an admin of one group has a row that is no admin row in the other
C22_Witness ==
    /\ out = Out("promote", "promoted", NULL)
    /\ \E i, j \in SeqIds(members) :
          /\ members[i].telegram_id = members[j].telegram_id
          /\ members[i].group_id # members[j].group_id
          /\ members[i].role = "admin"
          /\ members[j].role = "member"

\* the group has an active admin row in the table ms
HasAdmin(ms, group_id) ==
    \E i \in SeqIds(ms) :
        ms[i].group_id = group_id /\ ms[i].active /\ ms[i].role = "admin"

EmbedsOwnSession(p) ==
    \A parts \in p.tokens : parts[2] = IntStr(p.session_id)

\* C24: the prompts in flight and the prompts delivered are each of a
\* session row of their own, in the group of the chat they go to, and every
\* button of a prompt embeds that session; a session whose prompt is in
\* flight has no message yet, whatever else was delivered meanwhile, and a
\* session whose prompt was delivered has that prompt's message and no
\* other.
C24_InterleavedPostsKeepApart ==
    /\ \A p \in pending :
          /\ p.session_id \in SeqIds(attendance_sessions)
          /\ attendance_sessions[p.session_id].group_id = GroupOfChat(p.chat)
          /\ attendance_sessions[p.session_id].message_id = NULL
          /\ EmbedsOwnSession(p)
          /\ \A q \in pending : q.session_id = p.session_id => q = p
          /\ \A k \in SeqIds(prompts) : prompts[k].session_id # p.session_id
    /\ \A k \in SeqIds(prompts) :
          /\ prompts[k].session_id \in SeqIds(attendance_sessions)
          /\ attendance_sessions[prompts[k].session_id].group_id
               = GroupOfChat(prompts[k].chat)
          /\ attendance_sessions[prompts[k].session_id].message_id = k
          /\ EmbedsOwnSession(prompts[k])
          /\ \A j \in SeqIds(prompts) :
                prompts[j].session_id = prompts[k].session_id => j = k

\* a manual and a scheduled post were in flight together and the later
\* session's prompt was delivered first: message 1 carries session 2 and
\* message 2 carries session 1
C24_Witness ==
    /\ Len(prompts) = 2
    /\ prompts[1].session_id = 2
    /\ prompts[2].session_id = 1
    /\ prompts[1].by # prompts[2].by
    /\ prompts[1].tokens # {} /\ prompts[2].tokens # {}

====
